---- MODULE Spec2Model ----
(***************************************************************************)
(* Turn-based price negotiation: YourBuyerAgent against MockSellerAgent,   *)
(* driven by run_negotiation_test (src/code.py).                           *)
(*                                                                         *)
(* Prices are Python ints.  Every  int(x * 0.58)  of the source is a       *)
(* binary64 multiplication followed by truncation; it is modelled by       *)
(* IntMul, which reproduces the rounding of the double product exactly.    *)
(* Strings are sequences of one-character strings, so that strip(),        *)
(* lower() and the substring test are computed and not assumed.            *)
(***************************************************************************)
EXTENDS Integers, Sequences, FiniteSets, TLC

(***************************************************************************)
(* Bounds of the model.                                                    *)
(***************************************************************************)
\* base_market_price ranges over 1..MaxSmallBase and BaseUnit * (1..MaxBaseUnits)
MaxSmallBase == 1
BaseUnit == 250
MaxBaseUnits == 4
\* budgets, seller minimums, seller prices and earlier offers are the
\* positive values (base * k) \div GridDen, k \in 1..MaxGridK
GridDen == 4
MaxGridK == 6
\* round numbers handed to a single policy call: 1..MaxRoundArg
MaxRoundArg == 8

Min(a, b) == IF a <= b THEN a ELSE b
Max(a, b) == IF a >= b THEN a ELSE b
Last(s) == s[Len(s)]

(***************************************************************************)
(* binary64 arithmetic.                                                    *)
(* A decimal literal c = num/den is stored as the double                   *)
(* c * (1 + (en/ed) * 2^-53).  For an int x the exact product x*c is       *)
(* either no integer, and then the double product lies strictly between    *)
(* the same two integers, or an integer q, and then the double product is  *)
(* q or a neighbouring double of q, decided by comparing q*|en|/ed with    *)
(* half a unit in the last place of q (ties go to q, whose mantissa is     *)
(* even).                                                                  *)
(***************************************************************************)
RECURSIVE Pow2Floor(_)
Pow2Floor(n) == IF n < 2 THEN 1 ELSE 2 * Pow2Floor(n \div 2)

\* does the double product x * lit round to a double below the integer q = x*c
RoundsBelow(q, lit) ==
    /\ q > 0
    /\ lit.en < 0
    /\ q * (-lit.en) * (IF q = Pow2Floor(q) THEN 2 ELSE 1) > lit.ed * Pow2Floor(q)

\* does the double product x * lit round to a double above the integer q = x*c
RoundsAbove(q, lit) ==
    /\ q > 0
    /\ lit.en > 0
    /\ q * lit.en > lit.ed * Pow2Floor(q)

\* int(x * lit) for an int x >= 0
IntMul(x, lit) ==
    LET q == (x * lit.num) \div lit.den
    IN  IF (x * lit.num) % lit.den = 0 /\ RoundsBelow(q, lit) THEN q - 1 ELSE q

\* y >= x * lit  for ints x, y >= 0 (an int compared with a double)
GeMul(y, x, lit) ==
    LET q == (x * lit.num) \div lit.den
    IN  IF (x * lit.num) % lit.den # 0
        THEN y * lit.den >= x * lit.num
        ELSE IF RoundsAbove(q, lit) THEN y >= q + 1 ELSE y >= q

\* y <= x * lit  for ints x, y >= 0 (an int compared with a double)
LeMul(y, x, lit) ==
    LET q == (x * lit.num) \div lit.den
    IN  IF (x * lit.num) % lit.den # 0
        THEN y * lit.den <= x * lit.num
        ELSE IF RoundsBelow(q, lit) THEN y <= q - 1 ELSE y <= q

\* the float literals of the source
Lit_0_58  == [num |-> 58,  den |-> 100,  en |-> -18, ed |-> 29]
Lit_0_40  == [num |-> 40,  den |-> 100,  en |-> 1,   ed |-> 2]
Lit_0_88  == [num |-> 88,  den |-> 100,  en |-> 1,   ed |-> 22]
Lit_0_80  == [num |-> 80,  den |-> 100,  en |-> 1,   ed |-> 2]
Lit_1_05  == [num |-> 105, den |-> 100,  en |-> 8,   ed |-> 21]
Lit_0_85  == [num |-> 85,  den |-> 100,  en |-> -4,  ed |-> 17]
Lit_1_07  == [num |-> 107, den |-> 100,  en |-> 56,  ed |-> 107]
Lit_0_002 == [num |-> 2,   den |-> 1000, en |-> 3,   ed |-> 16]
Lit_1_5   == [num |-> 15,  den |-> 10,   en |-> 0,   ed |-> 1]
Lit_0_70  == [num |-> 70,  den |-> 100,  en |-> -4,  ed |-> 7]
Lit_1_10  == [num |-> 110, den |-> 100,  en |-> 8,   ed |-> 11]
Lit_0_90  == [num |-> 90,  den |-> 100,  en |-> 2,   ed |-> 9]
Lit_1_08  == [num |-> 108, den |-> 100,  en |-> 16,  ed |-> 27]
Lit_1_15  == [num |-> 115, den |-> 100,  en |-> -16, ed |-> 23]
Lit_0_82  == [num |-> 82,  den |-> 100,  en |-> -22, ed |-> 41]
Lit_0_6   == [num |-> 6,   den |-> 10,   en |-> -1,  ed |-> 3]
Lit_0_95  == [num |-> 95,  den |-> 100,  en |-> -8,  ed |-> 19]

(***************************************************************************)
(* str.strip(), str.lower() and  sub in s.                                 *)
(***************************************************************************)
UpperCase == <<"A","B","C","D","E","F","G","H","I","J","K","L","M",
               "N","O","P","Q","R","S","T","U","V","W","X","Y","Z">>
LowerCase == <<"a","b","c","d","e","f","g","h","i","j","k","l","m",
               "n","o","p","q","r","s","t","u","v","w","x","y","z">>

\* str.lower() on one character
LowerMap == [c \in {UpperCase[i] : i \in 1..26} |->
                LowerCase[CHOOSE i \in 1..26 : UpperCase[i] = c]]

LowerChar(c) == IF c \in DOMAIN LowerMap THEN LowerMap[c] ELSE c

lower(s) == [i \in 1..Len(s) |-> LowerChar(s[i])]

Whitespace == {" ", "\t", "\n", "\r"}

strip(s) ==
    LET keep == {i \in 1..Len(s) : s[i] \notin Whitespace}
    IN  IF keep = {} THEN <<>>
        ELSE LET lo == CHOOSE i \in keep : \A j \in keep : i <= j
                 hi == CHOOSE i \in keep : \A j \in keep : i >= j
             IN  SubSeq(s, lo, hi)

\* sub in s
contains(sub, s) ==
    \E i \in 0..(Len(s) - Len(sub)) : SubSeq(s, i + 1, i + Len(sub)) = sub

(***************************************************************************)
(* YourBuyerAgent                                                          *)
(***************************************************************************)
\* personality['catchphrases'], by index
catchphrases == <<"far above market", "cannot justify", "deal that makes sense">>

\* the grade multipliers exchanged
GradeAdjustedSwapped(fair, quality_grade) ==
    LET grade == lower(strip(quality_grade))
    IN  IF contains(<<"e","x","p","o","r","t">>, grade) THEN IntMul(fair, Lit_0_90)
        ELSE IF grade = <<"b">> THEN IntMul(fair, Lit_1_10)
        ELSE fair

\* the grade multiplier of calculate_fair_price
GradeAdjusted(fair, quality_grade) ==
    LET grade == lower(strip(quality_grade))
    IN  IF contains(<<"e","x","p","o","r","t">>, grade) THEN IntMul(fair, Lit_1_10)
        ELSE IF grade = <<"b">> THEN IntMul(fair, Lit_0_90)
        ELSE fair

\* the condition of the origin premium of calculate_fair_price
HasOriginPremium(product) ==
    LET origin == lower(strip(product.origin))
        name_lower == lower(strip(product.name))
    IN  /\ contains(<<"r","a","t","n","a","g","i","r","i">>, origin)
        /\ contains(<<"a","l","p","h","o","n","s","o">>, name_lower)

calculate_fair_price(product) ==
    LET fair == GradeAdjusted(product.base_market_price, product.quality_grade)
    IN  IF HasOriginPremium(product) THEN IntMul(fair, Lit_1_08) ELSE fair

\* the price of generate_opening_offer
OpeningPrice(product, your_budget, fair) ==
    LET opening_price == Min(IntMul(fair, Lit_0_58), your_budget)
        floor == IntMul(product.base_market_price, Lit_0_40)
    IN  Max(opening_price, floor)

generate_opening_offer(context) ==
    LET product == context.product
        fair == calculate_fair_price(product)
        opening_price == OpeningPrice(product, context.your_budget, fair)
    IN  [price |-> opening_price,
         message |-> [template |-> "opening", price |-> opening_price,
                      catchphrase |-> catchphrases[1]]]

\* the ceiling taken at the opening ratio
MaxWillingAtOpeningRatio(your_budget, fair) == Min(your_budget, IntMul(fair, Lit_0_58))

\* the aggressive ceiling of respond_to_seller_offer
MaxWilling(your_budget, fair) == Min(your_budget, IntMul(fair, Lit_0_88))

\* acceptance strictly below the ceiling
AcceptsStrictlyBelow(seller_price, max_willing) == seller_price < max_willing

\* the acceptance condition of respond_to_seller_offer
Accepts(seller_price, max_willing) == seller_price <= max_willing

\* the buyer's first offer instead of its most recent one
LastOfferIsFirst(your_offers, fair) ==
    IF your_offers # <<>> THEN your_offers[1] ELSE IntMul(fair, Lit_0_58)

\* the buyer's most recent offer, or the default anchor
LastOffer(your_offers, fair) ==
    IF your_offers # <<>> THEN Last(your_offers) ELSE IntMul(fair, Lit_0_58)

\* the round-dependent counter, before any clamp
RoundCounter(round_num, last_offer, seller_price) ==
    IF round_num <= 3
    THEN Max(IntMul(last_offer, Lit_1_05), IntMul(seller_price, Lit_0_80))
    ELSE IF round_num <= 7
    THEN Max(IntMul(last_offer, Lit_1_07), IntMul(seller_price, Lit_0_85))
    ELSE (last_offer + seller_price) \div 2

\* the small positive step of the monotonic rule
MinStep(fair) == Max(1, IntMul(fair, Lit_0_002))

\* clamp to the ceiling, then force the step up from the last offer
ClampAndStep(counter, max_willing, last_offer, fair) ==
    Max(Min(counter, max_willing), last_offer + MinStep(fair))

\* the anti-gouging override
AntiGouging(counter, seller_price, base_market_price, round_num, fair) ==
    IF seller_price >= IntMul(base_market_price, Lit_1_5) /\ round_num <= 2
    THEN Min(counter, IntMul(fair, Lit_0_70))
    ELSE counter

\* the counter price of respond_to_seller_offer
CounterPrice(context, seller_price, fair, max_willing) ==
    LET last_offer == LastOffer(context.your_offers, fair)
        round_num == context.current_round
        counter == RoundCounter(round_num, last_offer, seller_price)
    IN  AntiGouging(ClampAndStep(counter, max_willing, last_offer, fair),
                    seller_price, context.product.base_market_price, round_num, fair)

\* the reply once the counter is known
Reply(seller_price, max_willing, counter) ==
    IF Accepts(seller_price, max_willing)
    THEN [status |-> "ACCEPTED", price |-> seller_price,
          message |-> [template |-> "works", price |-> seller_price,
                       catchphrase |-> catchphrases[3]]]
    ELSE IF counter >= max_willing /\ seller_price > max_willing
    THEN [status |-> "ONGOING", price |-> counter,
          message |-> [template |-> "ceiling", price |-> counter,
                       catchphrase |-> catchphrases[2]]]
    ELSE [status |-> "ONGOING", price |-> counter,
          message |-> [template |-> "too high", price |-> counter,
                       catchphrase |-> catchphrases[3]]]

WithFair(context, seller_price, fair) ==
    LET max_willing == MaxWilling(context.your_budget, fair)
    IN  Reply(seller_price, max_willing,
              CounterPrice(context, seller_price, fair, max_willing))

respond_to_seller_offer(context, seller_price, seller_message) ==
    WithFair(context, seller_price, calculate_fair_price(context.product))

(***************************************************************************)
(* MockSellerAgent                                                         *)
(***************************************************************************)
get_opening_price(product) ==
    LET price == IntMul(product.base_market_price, Lit_1_5)
    IN  [price |-> price,
         message |-> [template |-> "asking", price |-> price,
                      quality_grade |-> product.quality_grade, name |-> product.name]]

\* acceptance from 10% below the minimum price instead of 10% above it
SellerAcceptsBelowMin(buyer_offer, min_price) == GeMul(buyer_offer, min_price, Lit_0_90)

\* the acceptance condition of respond_to_buyer
SellerAccepts(buyer_offer, min_price) == GeMul(buyer_offer, min_price, Lit_1_10)

\* a counter capped, instead of held, at the minimum price
SellerCounterAtMostMin(buyer_offer, round_num, min_price) ==
    IF round_num >= 8
    THEN Min(min_price, IntMul(buyer_offer, Lit_1_05))
    ELSE Min(min_price, IntMul(buyer_offer, Lit_1_15))

\* the counter of respond_to_buyer
SellerCounter(buyer_offer, round_num, min_price) ==
    IF round_num >= 8
    THEN Max(min_price, IntMul(buyer_offer, Lit_1_05))
    ELSE Max(min_price, IntMul(buyer_offer, Lit_1_15))

respond_to_buyer(min_price, buyer_offer, round_num) ==
    IF SellerAccepts(buyer_offer, min_price)
    THEN [price |-> buyer_offer, accepts |-> TRUE,
          message |-> [template |-> "deal", price |-> buyer_offer]]
    ELSE LET counter == SellerCounter(buyer_offer, round_num, min_price)
         IN  [price |-> counter, accepts |-> FALSE,
              message |-> [template |-> IF round_num >= 8 THEN "final offer" ELSE "come down",
                           price |-> counter]]

(***************************************************************************)
(* ExampleSimpleAgent                                                      *)
(***************************************************************************)
ExampleSimpleAgent_generate_opening_offer(context) ==
    LET opening == Min(IntMul(context.product.base_market_price, Lit_0_6),
                       context.your_budget)
    IN  [price |-> opening, message |-> [template |-> "interested", price |-> opening]]

\* the acceptance condition
ExampleAccepts(context, seller_price) ==
    /\ seller_price <= context.your_budget
    /\ LeMul(seller_price, context.product.base_market_price, Lit_0_85)

\* a small increment that is not held at the budget
ExampleCounterUnclamped(last_offer, your_budget) == IntMul(last_offer, Lit_1_10)

\* the counter with a small increment
ExampleCounter(last_offer, your_budget) == Min(IntMul(last_offer, Lit_1_10), your_budget)

ExampleSimpleAgent_respond_to_seller_offer(context, seller_price, seller_message) ==
    IF ExampleAccepts(context, seller_price)
    THEN [status |-> "ACCEPTED", price |-> seller_price,
          message |-> [template |-> "works for me", price |-> seller_price]]
    ELSE LET last_offer == IF context.your_offers # <<>> THEN Last(context.your_offers) ELSE 0
             counter == ExampleCounter(last_offer, context.your_budget)
         IN  IF GeMul(counter, seller_price, Lit_0_95)
             THEN LET close == Min(seller_price - 1000, context.your_budget)
                  IN  [status |-> "ONGOING", price |-> close,
                       message |-> [template |-> "a bit steep", price |-> close]]
             ELSE [status |-> "ONGOING", price |-> counter,
                   message |-> [template |-> "pushing my budget", price |-> counter]]

(***************************************************************************)
(* The inputs.                                                             *)
(***************************************************************************)
Str_A         == <<"A">>
Str_B         == <<"B">>
Str_b_padded  == <<" ", "b", " ">>
Str_Export    == <<"E","x","p","o","r","t">>
Str_Alphonso  == <<"A","l","p","h","o","n","s","o"," ","M","a","n","g","o","e","s">>
Str_Kesar     == <<"K","e","s","a","r"," ","M","a","n","g","o","e","s">>
Str_Ratnagiri == <<"R","a","t","n","a","g","i","r","i">>
Str_RATNAGIRI == <<"R","A","T","N","A","G","I","R","I"," ">>
Str_Gujarat   == <<"G","u","j","a","r","a","t">>

\* name, quality_grade and origin of the products negotiated
Kinds ==
    { [name |-> Str_Alphonso, quality_grade |-> Str_A,        origin |-> Str_Ratnagiri],
      [name |-> Str_Kesar,    quality_grade |-> Str_B,        origin |-> Str_Gujarat],
      [name |-> Str_Kesar,    quality_grade |-> Str_A,        origin |-> Str_Gujarat],
      [name |-> Str_Alphonso, quality_grade |-> Str_Export,   origin |-> Str_RATNAGIRI],
      [name |-> Str_Kesar,    quality_grade |-> Str_Export,   origin |-> Str_Ratnagiri],
      [name |-> Str_Alphonso, quality_grade |-> Str_b_padded, origin |-> Str_Ratnagiri] }

BasePrices == (1..MaxSmallBase) \cup {BaseUnit * k : k \in 1..MaxBaseUnits}

\* the two products of test_your_agent
test_products ==
    { [name |-> Str_Alphonso, quality_grade |-> Str_A, origin |-> Str_Ratnagiri,
       base_market_price |-> 180000],
      [name |-> Str_Kesar, quality_grade |-> Str_B, origin |-> Str_Gujarat,
       base_market_price |-> 150000] }

Products ==
    { [name |-> k.name, quality_grade |-> k.quality_grade, origin |-> k.origin,
       base_market_price |-> b] : k \in Kinds, b \in BasePrices } \cup test_products

\* positive prices around a base price
Grid(base) == {(base * k) \div GridDen : k \in 1..MaxGridK} \ {0}

\* buyer offer histories: none, one offer, or two offers
Histories(base) ==
    {<<>>} \cup {<<x>> : x \in Grid(base)} \cup {<<x \div 2, x>> : x \in Grid(base)}

\* the seller minimums: the grid, the one of the test driver's hard scenario,
\* and one above the seller's own opening price
SellerMins(base) == Grid(base) \cup {IntMul(base, Lit_0_82), 2 * base}

(***************************************************************************)
(* State.                                                                  *)
(***************************************************************************)
VARIABLES
    context,        \* NegotiationContext
    seller,         \* MockSellerAgent
    seller_price,   \* run_negotiation_test: the seller's standing price
    seller_msg,
    deal_made,
    final_price,    \* <<>> is None, <<p>> the price p
    round_num,      \* the loop variable of run_negotiation_test
    status,
    buyer_offer,
    seller_accepts,
    result,         \* the dict returned by run_negotiation_test, <<>> before
    ret,            \* the value returned by a single policy call
    pc

vars == <<context, seller, seller_price, seller_msg, deal_made, final_price, round_num,
          status, buyer_offer, seller_accepts, result, ret, pc>>

\* one round too many
MaxRoundsOffByOne == 10 + 1

\* range(10)
MaxRounds == 10

NoMessage == [template |-> "none"]
NoReturn == [op |-> "none"]

\* NegotiationContext(...) and MockSellerAgent(seller_min) as run_negotiation_test builds them
Init ==
    /\ \E product \in Products :
       \E buyer_budget \in Grid(product.base_market_price) :
       \E seller_min \in SellerMins(product.base_market_price) :
          /\ context = [product |-> product, your_budget |-> buyer_budget,
                        current_round |-> 0, seller_offers |-> <<>>,
                        your_offers |-> <<>>, messages |-> <<>>]
          /\ seller = [min_price |-> seller_min, personality |-> "standard"]
    /\ seller_price = 0
    /\ seller_msg = NoMessage
    /\ deal_made = FALSE
    /\ final_price = <<>>
    /\ round_num = 0
    /\ status = "unset"
    /\ buyer_offer = 0
    /\ seller_accepts = FALSE
    /\ result = <<>>
    /\ ret = NoReturn
    /\ pc = "open"

\* the opening price goes to the transcript but not to seller_offers
SellerOpensWithoutRecording ==
    /\ pc = "open"
    /\ LET o == get_opening_price(context.product)
       IN  /\ seller_price' = o.price
           /\ seller_msg' = o.message
           /\ context' = [context EXCEPT
                            !.messages = Append(@, [role |-> "seller", message |-> o.message])]
    /\ deal_made' = FALSE
    /\ final_price' = <<>>
    /\ round_num' = 0
    /\ pc' = "buyer"
    /\ UNCHANGED <<seller, status, buyer_offer, seller_accepts, result, ret>>

\* run_negotiation_test: the seller opens
SellerOpens ==
    /\ pc = "open"
    /\ LET o == get_opening_price(context.product)
       IN  /\ seller_price' = o.price
           /\ seller_msg' = o.message
           /\ context' = [context EXCEPT
                            !.seller_offers = Append(@, o.price),
                            !.messages = Append(@, [role |-> "seller", message |-> o.message])]
    /\ deal_made' = FALSE
    /\ final_price' = <<>>
    /\ round_num' = 0
    /\ pc' = "buyer"
    /\ UNCHANGED <<seller, status, buyer_offer, seller_accepts, result, ret>>

\* a break of the loop that never happens
BuyerNeverClosesDeal(buyer_status) == FALSE

\* run_negotiation_test: the test that closes the deal on the buyer's turn
BuyerClosesDeal(buyer_status) == buyer_status = "ACCEPTED"

\* run_negotiation_test: what the loop does with the buyer's reply r
RunBuyerReply(ctx, r) ==
    /\ status' = r.status
    /\ buyer_offer' = r.price
    /\ context' = [ctx EXCEPT
                     !.your_offers = Append(@, r.price),
                     !.messages = Append(@, [role |-> "buyer", message |-> r.message])]
    /\ IF BuyerClosesDeal(r.status)
       THEN /\ deal_made' = TRUE
            /\ final_price' = <<seller_price>>
            /\ pc' = "result"
       ELSE /\ UNCHANGED <<deal_made, final_price>>
            /\ pc' = "seller"
    /\ UNCHANGED <<seller, seller_price, seller_msg, round_num, seller_accepts, result, ret>>

\* run_negotiation_test: the buyer's half of one iteration of the loop
BuyerTurn ==
    /\ pc = "buyer"
    /\ LET ctx == [context EXCEPT !.current_round = round_num + 1]
           r == IF round_num = 0
                THEN [status |-> "ONGOING"] @@ generate_opening_offer(ctx)
                ELSE respond_to_seller_offer(ctx, seller_price, seller_msg)
       IN  RunBuyerReply(ctx, r)

\* run_negotiation_test: the seller's half of one iteration, and the loop's step
SellerTurn ==
    /\ pc = "seller"
    /\ LET r == respond_to_buyer(seller.min_price, buyer_offer, round_num)
       IN  /\ seller_price' = r.price
           /\ seller_msg' = r.message
           /\ seller_accepts' = r.accepts
           /\ IF r.accepts
              THEN /\ deal_made' = TRUE
                   /\ final_price' = <<buyer_offer>>
                   /\ context' = [context EXCEPT
                                    !.messages = Append(@, [role |-> "seller", message |-> r.message])]
                   /\ pc' = "result"
                   /\ UNCHANGED round_num
              ELSE /\ context' = [context EXCEPT
                                    !.seller_offers = Append(@, r.price),
                                    !.messages = Append(@, [role |-> "seller", message |-> r.message])]
                   /\ UNCHANGED <<deal_made, final_price>>
                   /\ IF round_num + 1 < MaxRounds
                      THEN round_num' = round_num + 1 /\ pc' = "buyer"
                      ELSE UNCHANGED round_num /\ pc' = "result"
    /\ UNCHANGED <<seller, status, buyer_offer, result, ret>>

\* run_negotiation_test: the result; the two percentages are kept as exact quotients <<n, d>>
Finish ==
    /\ pc = "result"
    /\ LET buyer_budget == context.your_budget
           base == context.product.base_market_price
       IN  result' =
             [deal_made |-> deal_made,
              final_price |-> final_price,
              rounds |-> context.current_round,
              savings |-> IF deal_made THEN buyer_budget - final_price[1] ELSE 0,
              savings_pct |-> IF deal_made
                              THEN <<(buyer_budget - final_price[1]) * 100, buyer_budget>>
                              ELSE <<0, 1>>,
              below_market_pct |-> IF deal_made
                                   THEN <<(base - final_price[1]) * 100, base>>
                                   ELSE <<0, 1>>,
              conversation |-> context.messages]
    /\ pc' = "done"
    /\ UNCHANGED <<context, seller, seller_price, seller_msg, deal_made, final_price,
                   round_num, status, buyer_offer, seller_accepts, ret>>

Next == SellerOpens \/ BuyerTurn \/ SellerTurn \/ Finish

Spec == Init /\ [][Next]_vars

(***************************************************************************)
(* run_negotiation_test with a buyer that walks away: a BaseBuyerAgent     *)
(* that negotiates as YourBuyerAgent does until, in some round after the   *)
(* first, it answers DealStatus.REJECTED, and from then on always does,    *)
(* naming its previous offer or the seller's price.                        *)
(***************************************************************************)
BuyerWalksAway ==
    /\ pc = "buyer"
    /\ round_num > 0
    /\ LET ctx == [context EXCEPT !.current_round = round_num + 1]
       IN  \E price \in {Last(context.your_offers), seller_price} :
              RunBuyerReply(ctx, [status |-> "REJECTED", price |-> price,
                                  message |-> [template |-> "walk away", price |-> price]])

NextWalkAway ==
    \/ SellerOpens
    \/ (status # "REJECTED" /\ BuyerTurn)
    \/ BuyerWalksAway
    \/ SellerTurn
    \/ Finish

SpecWalkAway == Init /\ [][NextWalkAway]_vars

(***************************************************************************)
(* Single calls of the policies, on arbitrary arguments.                   *)
(***************************************************************************)
InitCall ==
    /\ \E product \in Products :
       \E your_budget \in Grid(product.base_market_price) :
       \E current_round \in 1..MaxRoundArg :
       \E your_offers \in Histories(product.base_market_price) :
       \E price \in Grid(product.base_market_price) :
          /\ context = [product |-> product, your_budget |-> your_budget,
                        current_round |-> current_round, seller_offers |-> <<price>>,
                        your_offers |-> your_offers, messages |-> <<>>]
          /\ seller_price = price
          /\ seller_msg = [template |-> "come down", price |-> price]
          /\ seller = [min_price |-> IntMul(product.base_market_price, Lit_0_82),
                       personality |-> "standard"]
    /\ deal_made = FALSE
    /\ final_price = <<>>
    /\ round_num = 0
    /\ status = "unset"
    /\ buyer_offer = 0
    /\ seller_accepts = FALSE
    /\ result = <<>>
    /\ ret = NoReturn
    /\ pc = "call"

\* a policy that also records the price it returns in the buyer's history
ReturnsAndRecords(value) ==
    /\ pc = "call"
    /\ ret' = value
    /\ pc' = "returned"
    /\ context' = [context EXCEPT !.your_offers = Append(@, value.price)]
    /\ UNCHANGED <<seller, seller_price, seller_msg, deal_made, final_price,
                   round_num, status, buyer_offer, seller_accepts, result>>

\* a call of a policy: the policies assign to no field of the context or of the agents
Returns(value) ==
    /\ pc = "call"
    /\ ret' = value
    /\ pc' = "returned"
    /\ UNCHANGED <<context, seller, seller_price, seller_msg, deal_made, final_price,
                   round_num, status, buyer_offer, seller_accepts, result>>

CallFairPrice ==
    Returns([op |-> "calculate_fair_price", price |-> calculate_fair_price(context.product)])

CallOpening ==
    Returns([op |-> "generate_opening_offer"] @@ generate_opening_offer(context))

CallRespond ==
    Returns([op |-> "respond_to_seller_offer"]
              @@ respond_to_seller_offer(context, seller_price, seller_msg))

CallSellerOpening ==
    Returns([op |-> "get_opening_price"] @@ get_opening_price(context.product))

\* the price on the table taken as the buyer's offer
CallRespondToBuyer ==
    Returns([op |-> "respond_to_buyer"]
              @@ respond_to_buyer(seller.min_price, seller_price, context.current_round))

NextCall ==
    CallFairPrice \/ CallOpening \/ CallRespond \/ CallSellerOpening \/ CallRespondToBuyer

SpecCall == InitCall /\ [][NextCall]_vars

(***************************************************************************)
(* Single calls of the policies of ExampleSimpleAgent, on the same         *)
(* arguments.                                                              *)
(***************************************************************************)
CallExampleOpening ==
    Returns([op |-> "ExampleSimpleAgent.generate_opening_offer"]
              @@ ExampleSimpleAgent_generate_opening_offer(context))

CallExampleRespond ==
    Returns([op |-> "ExampleSimpleAgent.respond_to_seller_offer"]
              @@ ExampleSimpleAgent_respond_to_seller_offer(context, seller_price, seller_msg))

NextExampleCall == CallExampleOpening \/ CallExampleRespond

SpecExampleCall == InitCall /\ [][NextExampleCall]_vars

(***************************************************************************)
(* Properties.                                                             *)
(***************************************************************************)
Responded == pc = "returned" /\ ret.op = "respond_to_seller_offer"
Opened == pc = "returned" /\ ret.op = "generate_opening_offer"
Priced == pc = "returned" /\ ret.op = "calculate_fair_price"

Budget == context.your_budget
Base == context.product.base_market_price
Fair == calculate_fair_price(context.product)
Ceiling == Min(Budget, IntMul(Fair, Lit_0_88))
NormalGrade == lower(strip(context.product.quality_grade))
IsExport == contains(<<"e","x","p","o","r","t">>, NormalGrade)
IsGradeB == NormalGrade = <<"b">>

\* C1: every price respond_to_seller_offer returns, accepted or countered, is
\* at most the budget.
C1_RespondWithinBudget == Responded => ret.price <= Budget

\* C2: the price generate_opening_offer returns is at most the budget.
C2_OpeningWithinBudget == Opened => ret.price <= Budget

\* C3: in a negotiation every price in the buyer's offer history is at most the
\* budget, and a deal closes at a price within budget with savings >= 0.
C3_HistoryWithinBudget ==
    /\ \A i \in 1..Len(context.your_offers) : context.your_offers[i] <= Budget
    /\ (pc = "done" /\ result.deal_made) =>
          result.final_price[1] <= Budget /\ result.savings >= 0

\* C4: respond_to_seller_offer accepts, at exactly seller_price, if and only if
\* seller_price <= min(budget, truncate(fair * 0.88)); otherwise it is ONGOING.
C4_AcceptsIffWithinCeiling ==
    Responded =>
       /\ (ret.status = "ACCEPTED" /\ ret.price = seller_price) <=> seller_price <= Ceiling
       /\ seller_price > Ceiling => ret.status = "ONGOING"
       /\ ret.status \in {"ACCEPTED", "ONGOING"}

C4_Witness ==
    /\ Responded
    /\ ret.status = "ACCEPTED"
    /\ seller_price = Ceiling
    /\ ret.price = seller_price
    /\ context.current_round > 1

\* C5: an ONGOING reply of respond_to_seller_offer is at least the buyer's last
\* offer (or truncate(fair * 0.58) without one) plus max(1, truncate(fair * 0.002)).
C5_CounterStepsUp ==
    (Responded /\ ret.status = "ONGOING") =>
       ret.price >= (IF context.your_offers # <<>>
                     THEN context.your_offers[Len(context.your_offers)]
                     ELSE IntMul(Fair, Lit_0_58))
                    + Max(1, IntMul(Fair, Lit_0_002))

NoAcceptance == status # "ACCEPTED" /\ ~seller_accepts

\* C6: the negotiation ends after at most 10 rounds, and when nobody accepted
\* the outcome is no deal, no final price, savings 0 and rounds 10.
C6_TenRoundsThenNoDeal ==
    /\ context.current_round <= 10
    /\ Len(context.your_offers) <= 10
    /\ round_num < 10
    /\ pc \in {"open", "buyer", "seller", "result", "done"}
    /\ (pc = "done" /\ NoAcceptance) =>
          /\ result.deal_made = FALSE
          /\ result.final_price = <<>>
          /\ result.savings = 0
          /\ result.rounds = 10

C6_Witness ==
    /\ pc = "done"
    /\ NoAcceptance
    /\ result.rounds = 10
    /\ Len(context.seller_offers) = 11

HardScenarioMin == seller.min_price = IntMul(Base, Lit_0_82)

\* C7 as stated: with seller_min = truncate(0.82 * base) and budget >= base the
\* negotiation ends in a deal within budget, for every product.
C7_AlwaysDeal ==
    (pc = "done" /\ Budget >= Base /\ HardScenarioMin) =>
       /\ result.rounds <= 10
       /\ result.deal_made
       /\ result.final_price[1] <= Budget

\* C7 as amended: the same, for every product except grade B without the
\* Ratnagiri/Alphonso premium.
C7_DealUnlessPlainGradeB ==
    (/\ pc = "done"
     /\ Budget >= Base
     /\ HardScenarioMin
     /\ ~(IsGradeB /\ ~HasOriginPremium(context.product))) =>
       /\ result.rounds <= 10
       /\ result.deal_made
       /\ result.final_price[1] <= Budget

C7_Witness ==
    /\ pc = "done"
    /\ Budget >= Base
    /\ HardScenarioMin
    /\ IsGradeB
    /\ HasOriginPremium(context.product)
    /\ result.deal_made
    /\ result.rounds >= 2
    /\ result.final_price[1] <= Budget

\* C8: in a negotiation every price the buyer accepts or offers through
\* respond_to_seller_offer (every offer after the opening one) is at most
\* max_willing = min(budget, truncate(fair * 0.88)).
C8_NeverAboveCeiling ==
    \A i \in 2..Len(context.your_offers) : context.your_offers[i] <= Ceiling

Ended == pc \in {"result", "done"}

\* C9: when the buyer accepts, the negotiation stops without a seller turn and
\* the final price is the last seller offer recorded; when the seller accepts it
\* stops and the final price is the buyer's offer of that round; otherwise
\* there is no deal.
C9_DealClosing ==
    /\ deal_made => Ended
    /\ (status = "ACCEPTED" \/ seller_accepts) => Ended
    /\ Ended =>
          /\ status = "ACCEPTED" =>
                /\ deal_made
                /\ final_price = <<context.seller_offers[Len(context.seller_offers)]>>
                /\ context.messages[Len(context.messages)].role = "buyer"
                /\ Len(context.seller_offers) = context.current_round
                /\ ~seller_accepts
          /\ seller_accepts =>
                /\ deal_made
                /\ final_price = <<context.your_offers[context.current_round]>>
                /\ Len(context.your_offers) = context.current_round
                /\ context.messages[Len(context.messages)].role = "seller"
          /\ deal_made => (status = "ACCEPTED" \/ seller_accepts)

C9_Witness ==
    /\ pc = "done"
    /\ status = "ACCEPTED"
    /\ context.current_round >= 2
    /\ Len(context.messages) = 2 * context.current_round
    /\ result.final_price = <<seller_price>>

\* C10: for an export grade calculate_fair_price is at least the base price and
\* for grade B at most the base price, with or without the origin premium.
C10_FairPriceAgainstBase ==
    Priced =>
       /\ IsExport => ret.price >= Base
       /\ IsGradeB => ret.price <= Base

C10_Witness ==
    /\ Priced
    /\ IsGradeB
    /\ HasOriginPremium(context.product)
    /\ ret.price < Base
    /\ ret.price > IntMul(Base, Lit_0_90)

\* C11: inside one negotiation the prices the buyer sends with status ONGOING
\* are strictly increasing from round to round.
C11_OffersStrictlyIncrease ==
    \A i \in 2..Len(context.your_offers) :
       (i < Len(context.your_offers) \/ status = "ONGOING") =>
          context.your_offers[i] > context.your_offers[i - 1]

\* C12: in round 1 or 2, for a seller price of at least truncate(base * 1.5)
\* above max_willing, the counter-offer is at most truncate(fair * 0.70) and at
\* most max_willing, whatever the budget.
C12_GougingCounterCapped ==
    (/\ Responded
     /\ context.current_round <= 2
     /\ seller_price >= IntMul(Base, Lit_1_5)
     /\ seller_price > Ceiling) =>
       /\ ret.price <= IntMul(Fair, Lit_0_70)
       /\ ret.price <= Ceiling

\* C13: when the seller does not accept the buyer's offer of round r, the round
\* number the buyer sees, its counter is max(min_price, truncate(offer * 1.05))
\* if r >= 8 and max(min_price, truncate(offer * 1.15)) if r < 8.
C13_SellerSoftensFromRound8 ==
    (context.current_round >= 1 /\ Len(context.seller_offers) = context.current_round + 1) =>
       Last(context.seller_offers) =
          Max(seller.min_price,
              IntMul(Last(context.your_offers),
                     IF context.current_round >= 8 THEN Lit_1_05 ELSE Lit_1_15))

Scenario1 ==
    /\ context.product.name = Str_Alphonso
    /\ context.product.quality_grade = Str_A
    /\ context.product.origin = Str_Ratnagiri
    /\ Base = 180000

\* C14: for the product of Scenario 1 (base 180000, grade A, Ratnagiri,
\* Alphonso) calculate_fair_price returns 194400 and, for every positive
\* budget, generate_opening_offer returns min(112752, budget).
C14_Scenario1Opening ==
    Scenario1 =>
       /\ Priced => ret.price = 194400
       /\ Opened => ret.price = Min(112752, Budget)

Extends(old, new) == Len(new) = Len(old) + 1 /\ SubSeq(new, 1, Len(old)) = old

C15_Shape ==
    /\ pc = "open" =>
          /\ context.current_round = 0
          /\ context.seller_offers = <<>>
          /\ context.your_offers = <<>>
          /\ context.messages = <<>>
    /\ pc # "open" => context.messages[1].message.template = "asking"
    /\ \A i \in 1..Len(context.messages) :
          context.messages[i].role = IF i % 2 = 1 THEN "seller" ELSE "buyer"
    /\ pc = "buyer" =>
          /\ context.current_round = round_num
          /\ Len(context.seller_offers) = round_num + 1
          /\ Len(context.your_offers) = round_num
    /\ pc = "seller" =>
          /\ context.current_round = round_num + 1
          /\ Len(context.your_offers) = context.current_round
          /\ Len(context.seller_offers) = context.current_round

C15_Turn ==
    /\ pc = "open" =>
          /\ Extends(context.seller_offers, context'.seller_offers)
          /\ Extends(context.messages, context'.messages)
          /\ context'.your_offers = context.your_offers
          /\ context'.current_round = context.current_round
    /\ pc = "buyer" =>
          /\ Extends(context.your_offers, context'.your_offers)
          /\ Extends(context.messages, context'.messages)
          /\ context'.seller_offers = context.seller_offers
          /\ context'.current_round = context.current_round + 1
    /\ pc = "seller" =>
          /\ \/ Extends(context.seller_offers, context'.seller_offers)
             \/ seller_accepts' /\ context'.seller_offers = context.seller_offers
          /\ Extends(context.messages, context'.messages)
          /\ context'.your_offers = context.your_offers
          /\ context'.current_round = context.current_round
    /\ pc \in {"result", "done"} => context' = context

\* C15: the two offer histories and the transcript only grow, by appending, in
\* turn order; the transcript starts with the seller's opening and the roles
\* alternate seller, buyer, seller, ...; the round counter starts at 0 and grows
\* by exactly 1 per buyer turn; at the start of the buyer's turn of round r the
\* seller's history has r entries and after that turn the buyer's has r.
C15_HistoriesInTurnOrder == []C15_Shape /\ [][C15_Turn]_vars

C15_Witness ==
    /\ pc = "seller"
    /\ context.current_round = 10
    /\ Len(context.your_offers) = 10
    /\ Len(context.seller_offers) = 10
    /\ Len(context.messages) = 20

\* C16: generate_opening_offer, respond_to_seller_offer and calculate_fair_price
\* of YourBuyerAgent, and get_opening_price and respond_to_buyer of
\* MockSellerAgent, leave the context's budget, round counter, offer histories
\* and transcript unchanged.
C16_PoliciesLeaveContext ==
    [][pc = "call" =>
          /\ context'.your_budget = context.your_budget
          /\ context'.current_round = context.current_round
          /\ context'.seller_offers = context.seller_offers
          /\ context'.your_offers = context.your_offers
          /\ context'.messages = context.messages
          /\ context'.product = context.product]_vars

C16_Witness ==
    /\ Responded
    /\ ret.status = "ONGOING"
    /\ Len(context.your_offers) = 2
    /\ ret.price > Last(context.your_offers)
    /\ context.messages = <<>>

\* C17: when the buyer's policy returns REJECTED, the negotiation ends in that
\* round: no seller turn follows and there is no deal.
C17_RejectedIsTerminal ==
    status = "REJECTED" =>
       /\ Ended
       /\ ~deal_made
       /\ Last(context.messages).role = "buyer"

\* buyer histories with the same most recent offer as h (or empty as h is)
SameLastOffer(h) ==
    IF h = <<>> THEN {<<>>} ELSE {<<Last(h)>>, <<Last(h) \div 2, Last(h)>>, <<Last(h) + 1, Last(h)>>}

OtherSellerOffers == <<seller_price + 1, seller_price>>
OtherMessages ==
    <<[role |-> "seller", message |-> seller_msg], [role |-> "buyer", message |-> NoMessage]>>

\* calls that agree with the call made on product, budget, round, most recent
\* buyer offer and seller_price: with other earlier buyer offers, with another
\* seller history, transcript and seller_message, and with all of them changed
SameInputs ==
    { [context |-> [context EXCEPT !.your_offers = h], seller_message |-> seller_msg] :
         h \in SameLastOffer(context.your_offers) }
    \cup
    { [context |-> [context EXCEPT !.seller_offers = OtherSellerOffers,
                                   !.messages = OtherMessages],
       seller_message |-> NoMessage],
      [context |-> [context EXCEPT
                      !.your_offers = IF @ = <<>> THEN @ ELSE <<Last(@) + 1, Last(@)>>,
                      !.seller_offers = OtherSellerOffers,
                      !.messages = OtherMessages],
       seller_message |-> NoMessage] }

\* C18: status and price of respond_to_seller_offer depend only on the product,
\* the budget, the round, the buyer's most recent offer and seller_price: a
\* call that differs in seller_message, transcript, seller history or earlier
\* buyer offers returns the same status and price.
C18_ReplyDependsOnFiveInputs ==
    Responded =>
       \A other \in SameInputs :
          LET r == respond_to_seller_offer(other.context, seller_price, other.seller_message)
          IN  r.status = ret.status /\ r.price = ret.price

C18_Witness ==
    /\ Responded
    /\ ret.status = "ONGOING"
    /\ Len(context.your_offers) = 2
    /\ context.your_offers[1] # context.your_offers[2]
    /\ Cardinality(SameInputs) = 5

\* C19: with a positive seller minimum, a deal closes at a final price of at
\* least the seller's minimum, whether the buyer or the seller accepted.
C19_DealAtLeastSellerMin ==
    (deal_made /\ seller.min_price > 0) =>
       /\ final_price[1] >= seller.min_price
       /\ pc = "done" => result.final_price[1] >= seller.min_price

C19_Witness ==
    /\ pc = "done"
    /\ result.deal_made
    /\ status = "ACCEPTED"
    /\ seller.min_price > 0
    /\ result.final_price[1] = seller.min_price
    /\ result.final_price[1] < IntMul(Base, Lit_1_5)

\* C20: every counter the seller records is at least the buyer offer it
\* answers, so at each buyer turn after round 1 the seller's standing price is
\* at least the buyer's previous offer.
C20_SellerCounterAboveOffer ==
    /\ \A i \in 2..Len(context.seller_offers) :
          context.seller_offers[i] >= context.your_offers[i - 1]
    /\ (pc = "buyer" /\ round_num >= 1) =>
          /\ seller_price = Last(context.seller_offers)
          /\ seller_price >= Last(context.your_offers)

C20_Witness ==
    /\ pc = "buyer"
    /\ round_num = 9
    /\ seller_price > seller.min_price
    /\ seller_price > Last(context.your_offers)
    /\ Last(context.your_offers) > seller.min_price

ExampleOpened == pc = "returned" /\ ret.op = "ExampleSimpleAgent.generate_opening_offer"
ExampleResponded == pc = "returned" /\ ret.op = "ExampleSimpleAgent.respond_to_seller_offer"

\* C21: ExampleSimpleAgent never names a price above the budget: the price of
\* generate_opening_offer and the price of respond_to_seller_offer, on the
\* accept path and on both counter paths, are at most the budget.
C21_ExampleWithinBudget ==
    /\ ExampleOpened => ret.price <= Budget
    /\ ExampleResponded =>
          /\ ret.price <= Budget
          /\ ret.status \in {"ACCEPTED", "ONGOING"}
          /\ ret.message.template \in {"works for me", "a bit steep", "pushing my budget"}

C21_Witness ==
    /\ ExampleResponded
    /\ ret.status = "ONGOING"
    /\ ret.message.template = "pushing my budget"
    /\ ret.price = Budget
    /\ IntMul(Last(context.your_offers), Lit_1_10) > Budget

====
